---- MODULE Spec2Model ----
(***************************************************************************)
(* Model of api_benchmark.py: main() creates TOTAL_BATCHES tasks, each     *)
(* running bound_fetch(sem, session) under an asyncio.Semaphore of         *)
(* PARALLEL_NUM units, awaits asyncio.gather and logs the sum of   *)
(* the returned sizes; the __main__ block then logs the summary line.      *)
(*                                                                         *)
(* Scheduling is asyncio's: one thread, a job takes a step only while      *)
(* main() is suspended in an await, and ready callbacks run in the order   *)
(* they were scheduled: the tasks take their first step in the order of    *)
(* their creation, before any transport call resolves; a waiter woken      *)
(* before main() is resumed takes its step before the run is torn down.    *)
(* The order in which the transport calls resolve is left open.            *)
(* The semaphore is CPython's asyncio.Semaphore (FIFO waiters, the unit    *)
(* is handed to the first pending waiter on release).                      *)
(***************************************************************************)
EXTENDS Integers, Sequences, FiniteSets, TLC

\* ---------------------------------------------------------------- bounds
MaxBatches == 3
MaxParallel == 3
SmallBatch == 128
LargeBatch == 2253

\* ------------------------------------------------------------- constants
BATCH_SIZE == 20

None == -1
NoSummary == [batch_size |-> None, total_batches |-> None, total_items |-> None]

\* response.status of an answered POST: a success and an error status
Statuses == {200, 500}
\* sys.getsizeof(json.dumps(b)) of a generated batch
Sizes == {SmallBatch, LargeBatch}

VARIABLES
    TOTAL_BATCHES,  \* configuration, line 28
    PARALLEL_NUM,   \* configuration, line 27
    batchBytes,     \* job -> sys.getsizeof(json.dumps(b)) of its batch, or None
    pc,             \* position of main() / the __main__ block
    i,              \* loop variable of main(): number of tasks created
    sem,            \* sem._value
    waiters,        \* sem._waiters, as the jobs owning the futures
    job,            \* job -> position of its bound_fetch task
    status,         \* job -> response.status, None before the response
    result,         \* job -> task result in bytes (1024ths of a kilobyte)
    posts,          \* job -> number of session.post calls made
    reordered,      \* some task finished after a task created later
    totalLine,      \* 'total size sent' in hundredths of a kilobyte, or None
    summaryLine     \* the summary of the __main__ block, or NoSummary

vars == <<TOTAL_BATCHES, PARALLEL_NUM, batchBytes, pc, i, sem, waiters, job,
          status, result, posts, reordered, totalLine, summaryLine>>

config == <<TOTAL_BATCHES, PARALLEL_NUM>>

\* ------------------------------------------------------- pure definitions
\* a loop that runs once too often
range_inclusive(n) == 0 .. n

range(n) == 0 .. (n - 1)

Jobs == range(TOTAL_BATCHES)

RECURSIVE SumOver(_, _)
SumOver(f, S) ==
    IF S = {} THEN 0
    ELSE LET x == CHOOSE y \in S : TRUE IN f[x] + SumOver(f, S \ {x})

\* sum(set(sizes)): equal sizes are counted once
SumSeq_distinct(s) ==
    LET vals == {s[k] : k \in 1 .. Len(s)}
    IN  SumOver([v \in vals |-> v], vals)

RECURSIVE SumSeq(_)
SumSeq(s) == IF s = <<>> THEN 0 ELSE Head(s) + SumSeq(Tail(s))

\* f'{kb:0.2f}' of a size of b/1024 kilobytes, as a number of hundredths:
\* correctly rounded, ties to even.
Format2f(b) ==
    LET q == (b * 100) \div 1024
        r == (b * 100) % 1024
    IN  IF r > 512 \/ (r = 512 /\ q % 2 = 1) THEN q + 1 ELSE q

Remove(w, j) == SelectSeq(w, LAMBDA x : x # j)

\* A waiter's future is pending: not woken, and not cancelled by the
\* cancellation of every remaining task at the end of asyncio.run.
Pending(jb, p, j) == jb[j] = "waiting" /\ p # "cancelling"

\* a limiter that never makes a job wait
locked_never(v, jb, w, p) == FALSE

\* a limiter that keeps one unit back
locked_off_by_one(v, jb, w, p) ==
    v <= 1 \/ \E k \in 1 .. Len(w) : ~(jb[w[k]] = "waiting" /\ p = "cancelling")

\* a limiter that only refuses below zero
locked_below_zero(v, jb, w, p) ==
    v < 0 \/ \E k \in 1 .. Len(w) : ~(jb[w[k]] = "waiting" /\ p = "cancelling")

\* Semaphore.locked
locked(v, jb, w, p) ==
    v = 0 \/ \E k \in 1 .. Len(w) : ~(jb[w[k]] = "waiting" /\ p = "cancelling")

\* a wake-up that leaves the unit in the pool as well
wake_up_next_no_take(v, jb, w, p) ==
    LET cand == {k \in 1 .. Len(w) : jb[w[k]] = "waiting" /\ p # "cancelling"}
    IN  IF cand = {} THEN [value |-> v, job |-> jb]
        ELSE LET k == CHOOSE x \in cand : \A y \in cand : x <= y
             IN  [value |-> v, job |-> [jb EXCEPT ![w[k]] = "woken"]]

\* Semaphore._wake_up_next
wake_up_next(v, jb, w, p) ==
    LET cand == {k \in 1 .. Len(w) : Pending(jb, p, w[k])}
    IN  IF cand = {} THEN [value |-> v, job |-> jb]
        ELSE LET k == CHOOSE x \in cand : \A y \in cand : x <= y
             IN  [value |-> v - 1, job |-> [jb EXCEPT ![w[k]] = "woken"]]

\* a release that is forgotten
release_forgotten(v, jb, w, p) == [value |-> v, job |-> jb]

\* Semaphore.release
release(v, jb, w, p) == wake_up_next(v + 1, jb, w, p)

\* the tail of Semaphore.acquire after the waiter's future got its result
after_wait(v, jb, w, p) ==
    IF v > 0 THEN wake_up_next(v, jb, w, p) ELSE [value |-> v, job |-> jb]

Holding == {"woken", "posting", "reading"}
InRequest == {"posting", "reading"}
Finished == {"done", "failed", "cancelled"}

\* main() is suspended in an await, so the event loop runs the jobs.
Running == pc \in {"gather", "raised"}

\* tasks that resolve before the later tasks have started
Started_unordered(jb) == TRUE

\* every task created has taken its first step
Started(jb) == \A j \in DOMAIN jb : jb[j] \notin {"none", "created"}

\* asyncio.wait(tasks, return_when=FIRST_COMPLETED) in place of gather
AllDone_first(jb) == \E j \in DOMAIN jb : jb[j] = "done"

\* gather(..., return_exceptions=True): an exception counts as a result
AllDone_return_exceptions(jb) ==
    \A j \in DOMAIN jb : jb[j] \in {"done", "failed"}

AllDone(jb) == \A j \in DOMAIN jb : jb[j] = "done"
SomeFailed(jb) == \E j \in DOMAIN jb : jb[j] = "failed"

\* the list gather returns: the results in the order of the tasks
sizes == [k \in 1 .. TOTAL_BATCHES |-> result[k - 1]]

\* ------------------------------------------------------------------ Init
\* the state after lines 65-67 of main(), whatever the configuration
Start ==
    /\ batchBytes = [j \in Jobs |-> None]
    /\ pc = "loop"
    /\ i = 0
    /\ sem = PARALLEL_NUM
    /\ waiters = <<>>
    /\ job = [j \in Jobs |-> "none"]
    /\ status = [j \in Jobs |-> None]
    /\ result = [j \in Jobs |-> None]
    /\ posts = [j \in Jobs |-> 0]
    /\ reordered = FALSE
    /\ totalLine = None
    /\ summaryLine = NoSummary

Init ==
    /\ TOTAL_BATCHES \in 0 .. MaxBatches
    /\ PARALLEL_NUM \in 0 .. MaxParallel
    /\ Start

\* the configurations with a batch count below zero included: nothing in
\* the module checks lines 27-29
InitAnyCount ==
    /\ TOTAL_BATCHES \in -1 .. MaxBatches
    /\ PARALLEL_NUM \in 0 .. MaxParallel
    /\ Start

\* ---------------------------------------------------------------- main()
CreateTask ==
    /\ pc = "loop"
    /\ i \in Jobs
    /\ job' = [job EXCEPT ![i] = "created"]
    /\ i' = i + 1
    /\ UNCHANGED <<config, batchBytes, pc, sem, waiters, status, result, posts, reordered,
                   totalLine, summaryLine>>

\* await asyncio.gather: with no task the result is there at once
Gather ==
    /\ pc = "loop"
    /\ i \notin Jobs
    /\ pc' = IF Jobs = {} THEN "gathered" ELSE "gather"
    /\ UNCHANGED <<config, batchBytes, i, sem, waiters, job, status, result, posts, reordered,
                   totalLine, summaryLine>>

GatherReturn ==
    /\ pc = "gather"
    /\ AllDone(job)
    /\ pc' = "gathered"
    /\ UNCHANGED <<config, batchBytes, i, sem, waiters, job, status, result, posts, reordered,
                   totalLine, summaryLine>>

\* the first exception of a task is raised in main() and leaves it; the
\* waiter woken by the failing task was scheduled before main() and has run
GatherRaise ==
    /\ pc = "gather"
    /\ SomeFailed(job)
    /\ \A j \in Jobs : job[j] # "woken"
    /\ pc' = "raised"
    /\ UNCHANGED <<config, batchBytes, i, sem, waiters, job, status, result, posts, reordered,
                   totalLine, summaryLine>>

LogTotal ==
    /\ pc = "gathered"
    /\ totalLine' = Format2f(SumSeq(sizes))
    /\ pc' = "returned"
    /\ UNCHANGED <<config, batchBytes, i, sem, waiters, job, status, result, posts, reordered,
                   summaryLine>>

\* ------------------------------------------------------------- __main__
\* asyncio.run cancels every task still pending when main() has raised
CancelAll ==
    /\ pc = "raised"
    /\ pc' = "cancelling"
    /\ UNCHANGED <<config, batchBytes, i, sem, waiters, job, status, result, posts, reordered,
                   totalLine, summaryLine>>

\* asyncio.run re-raises the exception of main(): the script ends at line 77
Crash ==
    /\ pc = "cancelling"
    /\ \A j \in Jobs : job[j] \in Finished
    /\ pc' = "crashed"
    /\ UNCHANGED <<config, batchBytes, i, sem, waiters, job, status, result, posts, reordered,
                   totalLine, summaryLine>>

\* a summary that adds where line 80 multiplies
Summary_adds(size, n) ==
    [batch_size |-> size, total_batches |-> n, total_items |-> n + size]

\* the fields of the f-string of line 80
Summary(size, n) ==
    [batch_size |-> size, total_batches |-> n, total_items |-> n * size]

LogSummary ==
    /\ pc = "returned"
    /\ summaryLine' = Summary(BATCH_SIZE, TOTAL_BATCHES)
    /\ pc' = "exit"
    /\ UNCHANGED <<config, batchBytes, i, sem, waiters, job, status, result, posts, reordered,
                   totalLine>>

\* ----------------------------------------------------------- bound_fetch
\* send_request up to its first await: the batch is built and posted
SendRequest(j, b) ==
    /\ batchBytes' = [batchBytes EXCEPT ![j] = b]
    /\ posts' = [posts EXCEPT ![j] = @ + 1]

\* the task has finished: did it finish after a task created later?
Finish(j) ==
    reordered' = (reordered \/ \E k \in Jobs : k > j /\ job[k] \in Finished)

\* first step of the task: async with sem, then send_request up to the POST
JobStart(j) ==
    /\ Running
    /\ job[j] = "created"
    /\ \A k \in Jobs : k < j => job[k] # "created"
    /\ IF ~locked(sem, job, waiters, pc)
       THEN /\ sem' = sem - 1
            /\ job' = [job EXCEPT ![j] = "posting"]
            /\ \E b \in Sizes : SendRequest(j, b)
            /\ UNCHANGED waiters
       ELSE /\ waiters' = Append(waiters, j)
            /\ job' = [job EXCEPT ![j] = "waiting"]
            /\ UNCHANGED <<sem, batchBytes, posts>>
    /\ UNCHANGED <<config, pc, i, status, result, reordered, totalLine,
                   summaryLine>>

\* a woken waiter resumes: acquire returns, send_request runs up to the POST
JobResume(j) ==
    /\ Running
    /\ Started(job)
    /\ job[j] = "woken"
    /\ LET w == Remove(waiters, j)
           r == after_wait(sem, [job EXCEPT ![j] = "posting"], w, pc)
       IN  /\ waiters' = w
           /\ sem' = r.value
           /\ job' = r.job
    /\ \E b \in Sizes : SendRequest(j, b)
    /\ UNCHANGED <<config, pc, i, status, result, reordered, totalLine,
                   summaryLine>>

\* acquire and release without try/finally: the unit stays taken
Raise_keeps_unit(j) ==
    /\ sem' = sem
    /\ job' = [job EXCEPT ![j] = "failed"]
    /\ batchBytes' = [batchBytes EXCEPT ![j] = None]
    /\ status' = [status EXCEPT ![j] = None]
    /\ Finish(j)

\* the task ends by an exception: __aexit__ of the semaphore releases,
\* and the batch and the response go with the frame of send_request
Raise(j) ==
    LET r == release(sem, [job EXCEPT ![j] = "failed"], waiters, pc)
    IN  /\ sem' = r.value
        /\ job' = r.job
        /\ batchBytes' = [batchBytes EXCEPT ![j] = None]
        /\ status' = [status EXCEPT ![j] = None]
        /\ Finish(j)

\* session.post raises: connection error, timeout
JobPostRaises(j) ==
    /\ Running
    /\ Started(job)
    /\ job[j] = "posting"
    /\ Raise(j)
    /\ UNCHANGED <<config, pc, i, waiters, result, posts,
                   totalLine, summaryLine>>

\* the response arrives, with whatever status the endpoint answers
JobRespond(j) ==
    /\ Running
    /\ Started(job)
    /\ job[j] = "posting"
    /\ \E st \in Statuses : status' = [status EXCEPT ![j] = st]
    /\ job' = [job EXCEPT ![j] = "reading"]
    /\ UNCHANGED <<config, batchBytes, pc, i, sem, waiters, result, posts,
                   reordered, totalLine, summaryLine>>

\* response.text() raises: the connection breaks while the body is read
JobTextRaises(j) ==
    /\ Running
    /\ Started(job)
    /\ job[j] = "reading"
    /\ Raise(j)
    /\ UNCHANGED <<config, pc, i, waiters, result, posts,
                   totalLine, summaryLine>>

\* the body was read: send_request returns the size, whatever the status
JobReturn(j) ==
    /\ Running
    /\ Started(job)
    /\ job[j] = "reading"
    /\ LET r == release(sem, [job EXCEPT ![j] = "done"], waiters, pc)
       IN  /\ sem' = r.value
           /\ job' = r.job
    /\ result' = [result EXCEPT ![j] = batchBytes[j]]
    /\ Finish(j)
    /\ UNCHANGED <<config, batchBytes, pc, i, waiters, status, posts,
                   totalLine, summaryLine>>

\* CancelledError is thrown into the task at the await it is suspended in;
\* the frames of the task are unwound
JobCancelled(j) ==
    /\ pc = "cancelling"
    /\ job[j] \notin Finished
    /\ LET jb == [job EXCEPT ![j] = "cancelled"]
           w == Remove(waiters, j)
           r == IF job[j] \in Holding
                THEN release(sem, jb, w, pc)
                ELSE [value |-> sem, job |-> jb]
       IN  /\ waiters' = w
           /\ sem' = r.value
           /\ job' = r.job
    /\ batchBytes' = [batchBytes EXCEPT ![j] = None]
    /\ status' = [status EXCEPT ![j] = None]
    /\ Finish(j)
    /\ UNCHANGED <<config, pc, i, result, posts,
                   totalLine, summaryLine>>

JobStep ==
    \E j \in Jobs :
        \/ JobStart(j)
        \/ JobResume(j)
        \/ JobPostRaises(j)
        \/ JobRespond(j)
        \/ JobTextRaises(j)
        \/ JobReturn(j)
        \/ JobCancelled(j)

Next ==
    \/ CreateTask
    \/ Gather
    \/ GatherReturn
    \/ GatherRaise
    \/ LogTotal
    \/ LogSummary
    \/ CancelAll
    \/ Crash
    \/ JobStep

Spec == Init /\ [][Next]_vars

\* every ready callback of the event loop is run and every transport call
\* resolves (aiohttp's default total timeout)
FairSpec == Spec /\ WF_vars(Next)

\* the runs of every batch count, the negative one included
SetupSpec == InitAnyCount /\ [][Next]_vars

\* ------------------------------------------------------------ properties
Successes == {j \in Jobs : job[j] = "done"}
Failures == {j \in Jobs : job[j] = "failed"}
InFlight == {j \in Jobs : job[j] \in InRequest}
RunOver == pc \in {"exit", "crashed"}
Is2xx(st) == st \in 200 .. 299

\* C1: for every PARALLEL_NUM >= 1 the number of jobs inside send_request
\* is at most PARALLEL_NUM in every reachable state.
C1_AtMostKInRequest ==
    PARALLEL_NUM >= 1 => Cardinality(InFlight) <= PARALLEL_NUM

\* the limiter is saturated while a job waits for a unit
C1_Witness ==
    /\ PARALLEL_NUM >= 1
    /\ Cardinality(InFlight) = PARALLEL_NUM
    /\ \E j \in Jobs : job[j] = "waiting"

\* C2: the failure of one job cancels no other job and does not abort
\* main(): main() goes on to the report.
C2_FailureIsolated ==
    /\ \A j \in Jobs : job[j] # "cancelled"
    /\ pc \notin {"raised", "cancelling", "crashed"}

\* C3: the run ends with its report emitted (total-size line and summary
\* line), showing zero bytes when every job failed.
C3_AlwaysReports ==
    RunOver =>
        /\ totalLine # None
        /\ summaryLine # NoSummary
        /\ (Cardinality(Failures) = TOTAL_BATCHES => totalLine = 0)

\* C4: when the total-size line is emitted every job has resolved and
\* successes + failures = TOTAL_BATCHES.
C4_NoPartialReport ==
    totalLine # None =>
        /\ \A j \in Jobs : job[j] \in Finished
        /\ Cardinality(Successes) + Cardinality(Failures) = TOTAL_BATCHES

\* the total-size line of a run of several jobs
C4_Witness == totalLine # None /\ TOTAL_BATCHES >= 2

\* C5: a job that fails or is cancelled while it holds a unit gives the
\* unit back (to the pool or to the first waiter), and once every job
\* has finished the full capacity is available again.
C5_ReleaseOnFailure ==
    /\ [][\A j \in Jobs :
            (job[j] \in Holding /\ job'[j] \in {"failed", "cancelled"}) =>
                \/ sem' = sem + 1
                \/ \E k \in Jobs : job[k] = "waiting" /\ job'[k] = "woken"]_vars
    /\ []((\A j \in Jobs : job[j] \in Finished) => sem = PARALLEL_NUM)

\* a job failed, the unit went to a waiter, and the waiter was later
\* cancelled inside send_request; all units are back
C5_Witness ==
    /\ pc = "crashed"
    /\ sem = PARALLEL_NUM
    /\ PARALLEL_NUM < TOTAL_BATCHES
    /\ \E j \in Jobs : job[j] = "cancelled" /\ posts[j] = 1

\* C6: every job calls session.post exactly once and produces exactly one
\* outcome (a size or an error).
C6_EveryJobPostsOnce ==
    /\ \A j \in Jobs : posts[j] <= 1
    /\ RunOver => \A j \in Jobs : posts[j] = 1 /\ job[j] \in {"done", "failed"}

\* C7: the report of a finished run shows the successes and the failures,
\* adding up to TOTAL_BATCHES, and the sum of the succeeding jobs' sizes.
C7_PartialFailureReport ==
    RunOver =>
        /\ Cardinality(Successes) + Cardinality(Failures) = TOTAL_BATCHES
        /\ totalLine = Format2f(SumOver(batchBytes, Successes))

\* C8: a job answered with a non-2xx status is not a success and its size
\* is not part of the reported total.
C8_ErrorStatusIsFailure ==
    /\ \A j \in Jobs : (status[j] # None /\ ~Is2xx(status[j])) => job[j] # "done"
    /\ totalLine # None =>
           totalLine = Format2f(SumOver(batchBytes,
                                        {j \in Successes : Is2xx(status[j])}))

\* C9: the reported total is the sum of the sizes of the successful jobs'
\* batches, whatever the order in which the jobs finished.
C9_TotalOrderIndependent ==
    totalLine # None => totalLine = Format2f(SumOver(batchBytes, Successes))

\* a report after jobs finished out of creation order, sizes repeating
C9_Witness ==
    /\ totalLine # None
    /\ reordered
    /\ \E j, k \in Jobs : j # k /\ batchBytes[j] = batchBytes[k]
    /\ \E j, k \in Jobs : batchBytes[j] # batchBytes[k]

\* C10: with TOTAL_BATCHES = 0 no job exists, session.post is never called,
\* no unit is acquired, and the run ends with a report of zero bytes, zero
\* successes and zero failures.
C10_EmptyRun ==
    /\ [](TOTAL_BATCHES = 0 =>
            /\ \A j \in DOMAIN posts : posts[j] = 0
            /\ sem = PARALLEL_NUM /\ waiters = <<>>
            /\ Successes = {} /\ Failures = {}
            /\ totalLine \in {None, 0})
    /\ (TOTAL_BATCHES = 0) ~> (pc = "exit" /\ totalLine = 0
                                 /\ summaryLine # NoSummary)

\* the empty run has reported and ended
C10_Witness == TOTAL_BATCHES = 0 /\ pc = "exit" /\ totalLine = 0

\* C11: a batch count that is not positive is a fatal setup error: no job
\* is scheduled and neither the total-size line nor the summary is emitted.
C11_NonPositiveCountAborts ==
    TOTAL_BATCHES <= 0 =>
        /\ totalLine = None
        /\ summaryLine = NoSummary
        /\ pc \notin {"gathered", "returned", "exit"}

\* C12: for every TOTAL_BATCHES >= 0 and PARALLEL_NUM >= 1, when every
\* transport call resolves, main() eventually terminates: no job stays
\* blocked on the semaphore and gather does not wait forever.
C12_Terminates ==
    (PARALLEL_NUM >= 1) ~>
        (RunOver /\ \A j \in Jobs : job[j] \in Finished)

\* a run whose jobs had to queue for the semaphore has ended
C12_Witness ==
    /\ pc = "exit"
    /\ PARALLEL_NUM >= 1
    /\ PARALLEL_NUM < TOTAL_BATCHES

\* C13: while capacity exists no job waits for a unit indefinitely: a free
\* unit is never left beside a pending waiter, and every waiting job
\* eventually enters send_request.
C13_NoStarvation ==
    /\ [](sem > 0 => \A j \in Jobs : ~Pending(job, pc, j))
    /\ \A j \in range(MaxBatches) :
          (PARALLEL_NUM >= 1 /\ j \in Jobs /\ job[j] = "waiting")
              ~> (j \in Jobs /\ posts[j] >= 1)

\* C14: the summary shows TOTAL_BATCHES batches and TOTAL_BATCHES *
\* BATCH_SIZE items (10 and 200 for 10 batches of 20), one batch of
\* BATCH_SIZE items per job, whatever the jobs' outcomes.
C14_SummaryFields ==
    /\ summaryLine # NoSummary =>
          /\ summaryLine.batch_size = BATCH_SIZE
          /\ summaryLine.total_batches = Cardinality(Jobs)
          /\ summaryLine.total_items =
                SumOver([j \in Jobs |-> BATCH_SIZE], Jobs)
    /\ Summary(20, 10).total_batches = 10
    /\ Summary(20, 10).total_items = 200

\* the summary of a run of several jobs, one of them answered with an error
C14_Witness ==
    /\ summaryLine # NoSummary
    /\ TOTAL_BATCHES >= 2
    /\ \E j \in Jobs : status[j] = 500

\* waiters that were handed a unit by release and have not resumed yet
Woken == {j \in Jobs : job[j] = "woken"}

\* C15: waiting for a unit suspends the job, not main(): the creation loop
\* never touches the semaphore, every job exists when main() suspends in
\* gather, and every job is waiting or in flight before any job completes.
C15_DispatcherNotBlocked ==
    /\ pc = "loop" =>
          /\ sem = PARALLEL_NUM
          /\ \A j \in Jobs : job[j] = (IF j < i THEN "created" ELSE "none")
    /\ pc # "loop" => \A j \in Jobs : job[j] # "none"
    /\ (\E j \in Jobs : job[j] \in Finished) =>
          \A k \in Jobs : job[k] \notin {"none", "created"}

\* fewer units than jobs: main() is suspended in gather, the limiter is
\* full, the other jobs wait, and no job has completed
C15_Witness ==
    /\ pc = "gather"
    /\ PARALLEL_NUM >= 1
    /\ PARALLEL_NUM < TOTAL_BATCHES
    /\ \A j \in Jobs : job[j] \in InRequest \cup {"waiting"}
    /\ Cardinality(InFlight) = PARALLEL_NUM

\* C16: with PARALLEL_NUM >= TOTAL_BATCHES at least PARALLEL_NUM -
\* TOTAL_BATCHES units are free in every state and no job ever waits for the
\* semaphore: every job acquires on its first step.
C16_NeverSaturates ==
    PARALLEL_NUM >= TOTAL_BATCHES =>
        /\ sem >= PARALLEL_NUM - TOTAL_BATCHES
        /\ waiters = <<>>
        /\ \A j \in Jobs : job[j] \notin {"waiting", "woken"}

\* as many units as jobs, and all the jobs in flight at once
C16_Witness ==
    /\ TOTAL_BATCHES >= 2
    /\ PARALLEL_NUM = TOTAL_BATCHES
    /\ Cardinality(InFlight) = TOTAL_BATCHES

\* C17, as stated: free units + jobs inside the async with block =
\* PARALLEL_NUM in every state, with 0 <= free units <= PARALLEL_NUM.
C17_ConservationInsideBlock ==
    /\ sem + Cardinality(InFlight) = PARALLEL_NUM
    /\ sem \in 0 .. PARALLEL_NUM

\* C17, amended: free units + jobs inside the async with block + waiters
\* that release has handed a unit and that have not resumed yet =
\* PARALLEL_NUM, with 0 <= free units <= PARALLEL_NUM; when main() has
\* finished all PARALLEL_NUM units are free.
C17_Conservation ==
    /\ sem + Cardinality(InFlight) + Cardinality(Woken) = PARALLEL_NUM
    /\ sem \in 0 .. PARALLEL_NUM
    /\ RunOver => sem = PARALLEL_NUM

\* a unit on its way: released by one job, handed to a waiter still to run
C17_Witness ==
    /\ Woken # {}
    /\ InFlight # {}
    /\ \E j \in Jobs : job[j] = "done"

\* C18: PARALLEL_NUM = 0 with TOTAL_BATCHES >= 1 is not rejected: the jobs
\* are created, all of them come to wait for the semaphore and stay there,
\* session.post is never called and main() never gets past gather.
C18_ZeroUnitsDeadlock ==
    /\ []((PARALLEL_NUM = 0 /\ TOTAL_BATCHES >= 1) =>
            /\ pc \in {"loop", "gather"}
            /\ totalLine = None /\ summaryLine = NoSummary
            /\ \A j \in Jobs : /\ posts[j] = 0
                               /\ job[j] \in {"none", "created", "waiting"})
    /\ (PARALLEL_NUM = 0 /\ TOTAL_BATCHES >= 1) ~>
          [](pc = "gather" /\ \A j \in Jobs : job[j] = "waiting")

\* no unit, several jobs, all of them queued behind the semaphore
C18_Witness ==
    /\ PARALLEL_NUM = 0
    /\ TOTAL_BATCHES >= 2
    /\ pc = "gather"
    /\ Len(waiters) = TOTAL_BATCHES
    /\ \A j \in Jobs : job[j] = "waiting"

\* C19: the total-size line is emitted only when every job returned a
\* size; once a job has raised, neither line is ever emitted, the run ends
\* by the exception with the sizes already returned left unused, and the
\* jobs still waiting or in flight at the teardown end cancelled.
C19_AllOrNothing ==
    /\ [](totalLine # None =>
            \A j \in Jobs : job[j] = "done" /\ result[j] \in Sizes)
    /\ [](SomeFailed(job) =>
            /\ totalLine = None /\ summaryLine = NoSummary
            /\ pc \in {"gather", "raised", "cancelling", "crashed"})
    /\ [][pc = "cancelling" =>
            \A j \in Jobs : job'[j] \in {job[j], "cancelled"}]_vars
    /\ SomeFailed(job) ~> (pc = "crashed" /\ totalLine = None)

\* a crashed run: one job raised, one had returned its size, one was
\* cancelled
C19_Witness ==
    /\ pc = "crashed"
    /\ totalLine = None
    /\ summaryLine = NoSummary
    /\ \E j \in Jobs : job[j] = "done" /\ result[j] \in Sizes
    /\ \E j \in Jobs : job[j] = "cancelled"

TypeOK ==
    /\ TOTAL_BATCHES \in 0 .. MaxBatches
    /\ PARALLEL_NUM \in 0 .. MaxParallel
    /\ pc \in {"loop", "gather", "gathered", "returned", "exit", "raised",
               "cancelling", "crashed"}
    /\ sem \in 0 .. PARALLEL_NUM
    /\ \A j \in Jobs : job[j] \in {"none", "created", "waiting"} \cup Holding
                                    \cup Finished
====
